---- MODULE Spec2Model ----
(***************************************************************************)
(* Min-max excess tree of src/trees/mmt.rs: construction (excess_tree),    *)
(* the index navigator, and the two block searches fwd_search and          *)
(* bwd_search.  Node indices are 0-based as in the code; the bit vector is *)
(* a TLA+ sequence, so bit i of the code is bit_vec[i + 1].                *)
(***************************************************************************)
EXTENDS Integers, Sequences, FiniteSets, TLC

\* ---------------------------------------------------------------- bounds
MaxLen == 6
MaxBlock == 3
MaxBegin == 6
MaxExcess == 6
MaxIndex == 15

\* Stand-ins for i64::MAX / i64::MIN: the accumulators start there and are
\* only ever compared, never stored (every block has at least one symbol).
I64_MAX == 2147483647
I64_MIN == -2147483647

VARIABLES
    bit_vec,           \* the bit sequence handed to excess_tree
    block_size,        \* the block size handed to excess_tree
    debug_assertions,  \* build profile: are debug_assert!s compiled in
    nodes,             \* MinMaxTree.nodes, a function on 0 .. N-1
    pc,                \* "new", "built", "aborted", "searched", "navigated"
    op,                \* the last query: "none", "fwd", "bwd", "sib"
    begin,             \* its leaf index (for "sib": node index) argument
    relative_excess,   \* its excess argument
    result             \* what it returned

vars == <<bit_vec, block_size, debug_assertions, nodes, pc, op, begin,
          relative_excess, result>>

\* ------------------------------------------------------------ arithmetic
Min2(a, b) == IF a <= b THEN a ELSE b
Max2(a, b) == IF a >= b THEN a ELSE b

div_ceil(a, b) == (a + b - 1) \div b

RECURSIVE Pow2(_)
Pow2(k) == IF k = 0 THEN 1 ELSE 2 * Pow2(k - 1)

\* ceil(log2(n)) for n >= 1, the exponent of the smallest power of two >= n
RECURSIVE CeilLog2From(_, _)
CeilLog2From(n, k) == IF Pow2(k) >= n THEN k ELSE CeilLog2From(n, k + 1)

CeilLog2(n) == CeilLog2From(n, 0)

\* usize::next_power_of_two: smallest power of two >= n (1 for n = 0)
next_power_of_two(n) == Pow2(CeilLog2From(n, 0))

\* -------------------------------------------------------------- results
None == [kind |-> "None"]
Some(n, e) == [kind |-> "Some", node |-> n, excess |-> e]
Panic == [kind |-> "Panic"]

\* ------------------------------------------------------------ ExcessNode
ExcessNode(t, mn, mx) == [total |-> t, min |-> mn, max |-> mx]
DefaultNode == ExcessNode(0, 0, 0)

\* the accumulator starting at the default 0 instead of the extreme
min_excess_start_Default == DefaultNode.min

\* "let mut min_excess = i64::MAX; let mut max_excess = i64::MIN;" and the
\* same values at every block boundary
min_excess_start == I64_MAX
max_excess_start == I64_MIN

\* bit_vec.is_bit_set_unchecked(i) ? 1 : -1
Step(bits, i) == IF bits[i + 1] = 1 THEN 1 ELSE -1

\* ----------------------------------------------------------- excess_tree
\* truncating division instead of div_ceil
num_leaves_of_Floor(bits, B) == Len(bits) \div B

num_leaves_of(bits, B) == div_ceil(Len(bits), B)

num_internal_nodes_of(L) == Max2(1, Pow2(CeilLog2(L)) - 1)

\* The scan "for i in 0..bit_vec.len()" with its three accumulators, and the
\* store of the last block after the loop.
RECURSIVE LeafLoop(_, _, _, _, _, _, _)
LeafLoop(bits, B, i, ns, total_excess, min_excess, max_excess) ==
    LET L == num_leaves_of(bits, B)
        I == num_internal_nodes_of(L)
    IN IF i = Len(bits)
       THEN [ns EXCEPT ![I + L - 1] =
                ExcessNode(total_excess, min_excess, max_excess)]
       ELSE LET flush == i > 0 /\ i % B = 0
                ns1 == IF flush
                       THEN [ns EXCEPT ![I + (i \div B) - 1] =
                               ExcessNode(total_excess, min_excess, max_excess)]
                       ELSE ns
                t0 == IF flush THEN 0 ELSE total_excess
                mn0 == IF flush THEN min_excess_start ELSE min_excess
                mx0 == IF flush THEN max_excess_start ELSE max_excess
                t1 == t0 + Step(bits, i)
            IN LeafLoop(bits, B, i + 1, ns1, t1, Min2(mn0, t1), Max2(mx0, t1))

\* the right child's extremes taken without the left child's total
Combine_NoOffset(left_child, right_child) ==
    ExcessNode(left_child.total + right_child.total,
               Min2(left_child.min, right_child.min),
               Max2(left_child.max, right_child.max))

\* the total taken from the left child alone
Combine_LeftTotalOnly(left_child, right_child) ==
    ExcessNode(left_child.total,
               Min2(left_child.min, left_child.total + right_child.min),
               Max2(left_child.max, left_child.total + right_child.max))

\* The aggregate of an internal node with two children.
Combine(left_child, right_child) ==
    ExcessNode(left_child.total + right_child.total,
               Min2(left_child.min, left_child.total + right_child.min),
               Max2(left_child.max, left_child.total + right_child.max))

\* a slot with only a left child left at its default instead of copied
CombineSlot_SkipSingle(ns, idx) ==
    LET left_child_index == idx * 2 + 1
        right_child_index == idx * 2 + 2
        N == Cardinality(DOMAIN ns)
    IN IF right_child_index < N
       THEN [ns EXCEPT ![idx] =
               Combine(ns[left_child_index], ns[right_child_index])]
       ELSE ns

\* One slot of a level: combine, copy the only child, or leave the default.
CombineSlot(ns, idx) ==
    LET left_child_index == idx * 2 + 1
        right_child_index == idx * 2 + 2
        N == Cardinality(DOMAIN ns)
    IN IF left_child_index < N
       THEN IF right_child_index < N
            THEN [ns EXCEPT ![idx] =
                    Combine(ns[left_child_index], ns[right_child_index])]
            ELSE [ns EXCEPT ![idx] = ns[left_child_index]]
       ELSE ns

\* "for i in 0..current_level_size"
RECURSIVE CombineLevel(_, _, _, _)
CombineLevel(ns, current_level_start, i, current_level_size) ==
    IF i = current_level_size
    THEN ns
    ELSE CombineLevel(CombineSlot(ns, current_level_start + i),
                      current_level_start, i + 1, current_level_size)

\* The "loop { ... }" over the internal levels, bottom up.
RECURSIVE LevelLoop(_, _, _)
LevelLoop(ns, current_level_size, current_level_start) ==
    LET ns1 == CombineLevel(ns, current_level_start, 0, current_level_size)
    IN IF current_level_size = 1
       THEN ns1
       ELSE LevelLoop(ns1, current_level_size \div 2,
                      current_level_start - (current_level_size \div 2))

\* excess_tree for a block size >= 1 (block size 0 is handled by the action)
excess_tree(bits, B) ==
    IF Len(bits) = 0
    THEN [i \in {} |-> DefaultNode]
    ELSE LET L == num_leaves_of(bits, B)
             I == num_internal_nodes_of(L)
             fresh == [i \in 0 .. (L + I - 1) |-> DefaultNode]
             leaves == LeafLoop(bits, B, 0, fresh, 0,
                                min_excess_start, max_excess_start)
             current_level_size == Max2(1, next_power_of_two(L) \div 2)
         IN LevelLoop(leaves, current_level_size, I - current_level_size)

\* ------------------------------------------------------------- navigator
\* Option<usize> / Option<NonZeroUsize>: an index, or NoIndex for None.
NoIndex == -1

len(self) == Cardinality(DOMAIN self)

total_excess(self, index) == self[index].total
min_excess(self, index) == self[index].min
max_excess(self, index) == self[index].max

parent(self, index) ==
    IF index < len(self) THEN (index - 1) \div 2 ELSE NoIndex

left_child(self, index) ==
    IF index * 2 + 1 < len(self) THEN index * 2 + 1 ELSE NoIndex

right_child(self, index) ==
    IF index * 2 + 2 < len(self) THEN index * 2 + 2 ELSE NoIndex

right_sibling(self, index) ==
    IF index % 2 = 1
    THEN IF index + 1 >= len(self) THEN NoIndex ELSE index + 1
    ELSE NoIndex

\* NonZeroUsize::new(index - 1): None when index - 1 = 0 (never for index >= 2)
left_sibling(self, index) ==
    IF index % 2 = 0
    THEN IF index - 1 = 0 THEN NoIndex ELSE index - 1
    ELSE NoIndex

is_left_child(index) == index % 2 = 1

\* the two-node tree not treated apart
first_leaf_NoSpecialCase(self) ==
    next_power_of_two(div_ceil(len(self), 2)) - 1

\* The value first_leaf computes (its debug_assert is modelled by the callers)
first_leaf(self) ==
    IF len(self) = 2 THEN 1
    ELSE next_power_of_two(div_ceil(len(self), 2)) - 1

is_leaf(self, index) == index >= first_leaf(self)

\* NonZeroUsize::new(self.parent(node).unwrap()): UnwrapFailed when parent
\* is None, NoIndex when the parent is the root, else the parent.
UnwrapFailed == -2

ParentNonZero(self, node) ==
    LET p == parent(self, node)
    IN IF p = NoIndex THEN UnwrapFailed ELSE IF p = 0 THEN NoIndex ELSE p

\* ---------------------------------------------------------- forward search
\* only the lower bound tested
FwdBrackets_MinOnly(self, n, x) == min_excess(self, n) <= x

\* min_excess(n) <= x && x <= max_excess(n)
FwdBrackets(self, n, x) ==
    min_excess(self, n) <= x /\ x <= max_excess(self, n)

\* the relative excess carried past node n unchanged
FwdRebase_NoRebase(self, n, x) == x

\* x - total_excess(n): re-base past node n
FwdRebase(self, n, x) == x - total_excess(self, n)

RECURSIVE do_fwd_downwards_search(_, _, _)
do_fwd_downwards_search(self, node, x) ==
    IF is_leaf(self, node)
    THEN IF node = 0 THEN None ELSE Some(node, x)
    ELSE LET lc == left_child(self, node)
         IN IF lc # NoIndex
            THEN IF FwdBrackets(self, lc, x)
                 THEN do_fwd_downwards_search(self, lc, x)
                 ELSE LET rc == right_child(self, node)
                      IN IF rc # NoIndex
                         THEN LET x2 == FwdRebase(self, lc, x)
                              IN IF FwdBrackets(self, rc, x2)
                                 THEN do_fwd_downwards_search(self, rc, x2)
                                 ELSE Panic
                         ELSE Panic
            ELSE Panic

RECURSIVE do_fwd_upwards_search(_, _, _)
do_fwd_upwards_search(self, node, x) ==
    IF ~is_left_child(node)
    THEN LET p == ParentNonZero(self, node)
         IN IF p = UnwrapFailed THEN Panic
            ELSE IF p # NoIndex
                 THEN do_fwd_upwards_search(self, p, x)
                 ELSE None
    ELSE LET rs == right_sibling(self, node)
         IN IF rs # NoIndex
            THEN IF FwdBrackets(self, rs, x)
                 THEN do_fwd_downwards_search(self, rs, x)
                 ELSE LET p == ParentNonZero(self, node)
                      IN IF p = UnwrapFailed THEN Panic
                         ELSE IF p # NoIndex
                              THEN do_fwd_upwards_search(self, p,
                                       FwdRebase(self, rs, x))
                              ELSE None
            ELSE None

\* the node index returned without translation to a block index
ToBlock_Absolute(self, r) == r

\* .map(|(node, relative_excess)| (node.get() - self.first_leaf(), ...))
ToBlock(self, r) ==
    IF r.kind = "Some" THEN Some(r.node - first_leaf(self), r.excess) ELSE r

\* first_leaf's debug_assert!(!self.nodes.is_empty()) fails in a build with
\* debug assertions; without them first_leaf is 0 on the empty tree.
fwd_search(self, dbg, b, x) ==
    IF dbg /\ len(self) = 0 THEN Panic
    ELSE IF b + first_leaf(self) >= len(self) THEN None
    ELSE ToBlock(self, do_fwd_upwards_search(self, b + first_leaf(self), x))

\* --------------------------------------------------------- backward search
\* the exact-zero rule left out
BwdBrackets_NoZeroRule(self, n, x) ==
    /\ min_excess(self, n) <= x + total_excess(self, n)
    /\ x + total_excess(self, n) <= max_excess(self, n)

\* x + total(n) == 0 || (min(n) <= x + total(n) && x + total(n) <= max(n))
BwdBrackets(self, n, x) ==
    \/ x + total_excess(self, n) = 0
    \/ /\ min_excess(self, n) <= x + total_excess(self, n)
       /\ x + total_excess(self, n) <= max_excess(self, n)

\* the relative excess re-based with the wrong sign
BwdRebase_Minus(self, n, x) == x - total_excess(self, n)

\* x + total_excess(n): re-base past node n
BwdRebase(self, n, x) == x + total_excess(self, n)

RECURSIVE do_bwd_downwards_search(_, _, _)
do_bwd_downwards_search(self, node, x) ==
    IF is_leaf(self, node)
    THEN IF node = 0 THEN None ELSE Some(node, x)
    ELSE LET rc == right_child(self, node)
         IN IF rc # NoIndex
            THEN IF BwdBrackets(self, rc, x)
                 THEN do_bwd_downwards_search(self, rc, x)
                 ELSE LET lc == left_child(self, node)
                      IN IF lc # NoIndex
                         THEN LET x2 == BwdRebase(self, rc, x)
                              IN IF BwdBrackets(self, lc, x2)
                                 THEN do_bwd_downwards_search(self, lc, x2)
                                 ELSE Panic
                         ELSE Panic
            ELSE Panic

RECURSIVE do_bwd_upwards_search(_, _, _)
do_bwd_upwards_search(self, node, x) ==
    IF is_left_child(node)
    THEN LET p == ParentNonZero(self, node)
         IN IF p = UnwrapFailed THEN Panic
            ELSE IF p # NoIndex
                 THEN do_bwd_upwards_search(self, p, x)
                 ELSE None
    ELSE LET ls == left_sibling(self, node)
         IN IF ls # NoIndex
            THEN IF BwdBrackets(self, ls, x)
                 THEN do_bwd_downwards_search(self, ls, x)
                 ELSE LET p == ParentNonZero(self, node)
                      IN IF p = UnwrapFailed THEN Panic
                         ELSE IF p # NoIndex
                              THEN do_bwd_upwards_search(self, p,
                                       BwdRebase(self, ls, x))
                              ELSE None
            ELSE None

bwd_search(self, dbg, b, x) ==
    IF dbg /\ len(self) = 0 THEN Panic
    ELSE IF b + first_leaf(self) >= len(self) THEN None
    ELSE ToBlock(self, do_bwd_upwards_search(self, b + first_leaf(self), x))

\* ----------------------------------------------------------- state machine
BitVecs == UNION {[1 .. n -> {0, 1}] : n \in 0 .. MaxLen}

Idle == [kind |-> "Idle"]
EmptyTree == [i \in {} |-> DefaultNode]

Init ==
    /\ bit_vec \in BitVecs
    /\ block_size \in 0 .. MaxBlock
    /\ debug_assertions \in BOOLEAN
    /\ nodes = EmptyTree
    /\ pc = "new"
    /\ op = "none"
    /\ begin = 0
    /\ relative_excess = 0
    /\ result = Idle

\* MinMaxTree::excess_tree(&bit_vec, block_size).  The empty bit vector
\* returns before the division; div_ceil(0) aborts (division by zero).
ExcessTree ==
    /\ pc = "new"
    /\ IF Len(bit_vec) # 0 /\ block_size = 0
       THEN /\ pc' = "aborted"
            /\ nodes' = nodes
       ELSE /\ pc' = "built"
            /\ nodes' = excess_tree(bit_vec, block_size)
    /\ UNCHANGED <<bit_vec, block_size, debug_assertions, op, begin,
                   relative_excess, result>>

FwdSearch ==
    /\ pc = "built"
    /\ \E b \in 0 .. MaxBegin, x \in (-MaxExcess) .. MaxExcess :
          /\ op' = "fwd"
          /\ begin' = b
          /\ relative_excess' = x
          /\ result' = fwd_search(nodes, debug_assertions, b, x)
    /\ pc' = "searched"
    /\ UNCHANGED <<bit_vec, block_size, debug_assertions, nodes>>

BwdSearch ==
    /\ pc = "built"
    /\ \E b \in 0 .. MaxBegin, x \in (-MaxExcess) .. MaxExcess :
          /\ op' = "bwd"
          /\ begin' = b
          /\ relative_excess' = x
          /\ result' = bwd_search(nodes, debug_assertions, b, x)
    /\ pc' = "searched"
    /\ UNCHANGED <<bit_vec, block_size, debug_assertions, nodes>>

\* left_sibling(idx) and right_sibling(idx) for a non-zero index, which may
\* lie beyond the node array
SiblingsOf(self, idx) ==
    [kind |-> "Siblings",
     left |-> left_sibling(self, idx),
     right |-> right_sibling(self, idx)]

Siblings ==
    /\ pc = "built"
    /\ \E idx \in 1 .. MaxIndex :
          /\ op' = "sib"
          /\ begin' = idx
          /\ result' = SiblingsOf(nodes, idx)
    /\ pc' = "navigated"
    /\ UNCHANGED <<bit_vec, block_size, debug_assertions, nodes,
                   relative_excess>>

Next == ExcessTree \/ FwdSearch \/ BwdSearch \/ Siblings

Spec == Init /\ [][Next]_vars

\* Construction alone, for the properties of the tree excess_tree returns
\* (the searches leave nodes unchanged).
SpecTree == Init /\ [][ExcessTree]_vars

\* ------------------------------------------------- reference definitions
\* Brute-force quantities read off the bit vector itself, never off nodes.
NumBits == Len(bit_vec)
NumBlocks == div_ceil(NumBits, block_size)

\* excess (opens minus closes) of the bits at 0-based positions lo .. hi-1
RECURSIVE ExcessOver(_, _)
ExcessOver(lo, hi) ==
    IF lo >= hi THEN 0
    ELSE ExcessOver(lo, hi - 1) + (IF bit_vec[hi] = 1 THEN 1 ELSE -1)

BlockStart(j) == j * block_size
BlockEnd(j) == Min2(NumBits, (j + 1) * block_size)
BlockLen(j) == BlockEnd(j) - BlockStart(j)
PrefixExcess(j, k) == ExcessOver(BlockStart(j), BlockStart(j) + k)
BlockTotal(j) == ExcessOver(BlockStart(j), BlockEnd(j))

\* sum of the totals of the blocks strictly between blocks a and b (a < b)
TotalsBetween(a, b) == ExcessOver(BlockEnd(a), BlockStart(b))

SetMin(S) == CHOOSE m \in S : \A n \in S : m <= n
SetMax(S) == CHOOSE m \in S : \A n \in S : m >= n

\* the smallest power of two >= n, picked from a table rather than computed
PowersOfTwo == {1, 2, 4, 8, 16, 32, 64}
SmallestPowerOfTwoAtLeast(n) == SetMin({p \in PowersOfTwo : p >= n})

InternalCount == Max2(1, SmallestPowerOfTwoAtLeast(NumBlocks) - 1)

Built == pc \in {"built", "searched"} /\ block_size >= 1
FwdDone == pc = "searched" /\ op = "fwd" /\ block_size >= 1
BwdDone == pc = "searched" /\ op = "bwd" /\ block_size >= 1

\* blocks right of b holding a position k >= 1 whose excess, measured from
\* the end of block b, is x
FwdHits(b, x) ==
    {j \in (b + 1) .. (NumBlocks - 1) :
        \E k \in 1 .. BlockLen(j) : TotalsBetween(b, j) + PrefixExcess(j, k) = x}

\* blocks left of b holding a boundary k >= 0 whose excess, measured from
\* the start of block b, is x
BwdHits(b, x) ==
    {j \in 0 .. (b - 1) :
        \E k \in 0 .. BlockLen(j) :
            PrefixExcess(j, k) - BlockTotal(j) - TotalsBetween(j, b) = x}

\* ----------------------------------------------------------------- claims

\* C1: if some block right of begin holds a position (k in 1..len) whose
\* excess relative to the end of block begin is x, fwd_search returns a
\* present result whose block is the smallest such block.
C1_FwdFindsFirstBlock ==
    (FwdDone /\ begin < NumBlocks /\ FwdHits(begin, relative_excess) # {})
        => /\ result.kind = "Some"
           /\ result.node = SetMin(FwdHits(begin, relative_excess))

\* a forward search that had to skip a matching-free block and re-base x
C1_Witness ==
    /\ FwdDone /\ begin < NumBlocks
    /\ FwdHits(begin, relative_excess) # {}
    /\ result.kind = "Some"
    /\ result.node > begin + 1
    /\ TotalsBetween(begin, result.node) # 0

\* C2: bwd_search agrees with the right-to-left brute-force scan: the
\* largest block left of begin with a boundary (k in 0..len) of excess x
\* relative to the start of block begin, and absent when there is none.
C2_BwdAgreesWithScan ==
    (BwdDone /\ begin < NumBlocks)
        => IF BwdHits(begin, relative_excess) # {}
           THEN /\ result.kind = "Some"
                /\ result.node = SetMax(BwdHits(begin, relative_excess))
           ELSE result = None

\* a backward search that matched only through the exact-zero rule (the
\* left edge of the found block), after skipping a block
C2_Witness ==
    /\ BwdDone /\ begin < NumBlocks
    /\ result.kind = "Some"
    /\ result.node < begin - 1
    /\ result.excess + BlockTotal(result.node) = 0
    /\ \A k \in 1 .. BlockLen(result.node) :
          PrefixExcess(result.node, k) # 0

\* C3: on a non-empty tree, for every begin < L and every x (0 included),
\* if no block right of begin holds a position of excess x relative to the
\* end of block begin, fwd_search returns an absent result.
C3_FwdAbsentWhenNoBlock ==
    (FwdDone /\ NumBits > 0 /\ begin < NumBlocks
             /\ FwdHits(begin, relative_excess) = {})
        => result = None

\* C4: a present result (r, y) of fwd_search has y = x minus the totals of
\* the blocks strictly between begin and r, and y lies within [min, max] of
\* the stored leaf aggregate of block r.
C4_FwdExcessRelativeToStart ==
    (FwdDone /\ result.kind = "Some")
        => /\ result.excess =
                 relative_excess - TotalsBetween(begin, result.node)
           /\ min_excess(nodes, InternalCount + result.node) <= result.excess
           /\ result.excess <= max_excess(nodes, InternalCount + result.node)

\* a present forward result whose excess differs from the x asked for
C4_Witness ==
    /\ FwdDone
    /\ result.kind = "Some"
    /\ result.excess # relative_excess

\* C5: a present result (r, y) of bwd_search has y = x plus the totals of
\* the blocks strictly between r and begin, and y + total(r) is 0 or lies
\* within [min, max] of the stored leaf aggregate of block r.
C5_BwdExcessRelativeToEnd ==
    (BwdDone /\ result.kind = "Some")
        => LET r == InternalCount + result.node
               v == result.excess + total_excess(nodes, r)
           IN /\ result.excess =
                    relative_excess + TotalsBetween(result.node, begin)
              /\ \/ v = 0
                 \/ min_excess(nodes, r) <= v /\ v <= max_excess(nodes, r)

\* a present backward result whose excess differs from the x asked for
C5_Witness ==
    /\ BwdDone
    /\ result.kind = "Some"
    /\ result.excess # relative_excess

\* C6: a present result of fwd_search lies strictly right of begin and
\* below L; a present result of bwd_search lies in 0 .. begin-1.
C6_ResultStrictlyBeyondBegin ==
    /\ (FwdDone /\ result.kind = "Some")
          => (begin < result.node /\ result.node < NumBlocks)
    /\ (BwdDone /\ result.kind = "Some")
          => (0 <= result.node /\ result.node < begin)

\* a present result adjacent to the last block, the tightest case of C6
C6_Witness ==
    /\ pc = "searched" /\ block_size >= 1
    /\ result.kind = "Some"
    /\ \/ op = "fwd" /\ result.node = NumBlocks - 1 /\ begin = NumBlocks - 2
       \/ op = "bwd" /\ result.node = begin - 1 /\ begin = NumBlocks - 1

\* C7: on the empty tree both searches return an absent result for every
\* begin and x, without aborting on the way.
C7_EmptyTreeSearchAbsent ==
    (pc = "searched" /\ NumBits = 0) => result = None

\* the true aggregate of the blocks lo .. hi, over the non-empty prefixes
RangeExcesses(lo, hi, first) ==
    {ExcessOver(BlockStart(lo), BlockStart(lo) + k) :
        k \in first .. (BlockEnd(hi) - BlockStart(lo))}

TrueAggregate(lo, hi) ==
    ExcessNode(ExcessOver(BlockStart(lo), BlockEnd(hi)),
               SetMin(RangeExcesses(lo, hi, 1)),
               SetMax(RangeExcesses(lo, hi, 1)))

\* C8: excess_tree yields exactly N nodes, N = 0 for the empty sequence and
\* otherwise I + L with L = ceil(M/B), I = max(1, nextPowerOfTwo(L) - 1)
\* (so L = 1 gives N = 2), and the leaf aggregates sit at I .. N-1 in block
\* order.
C8_NodeCountAndLeafLayout ==
    Built =>
        /\ len(nodes) = (IF NumBits = 0 THEN 0 ELSE InternalCount + NumBlocks)
        /\ DOMAIN nodes = 0 .. (len(nodes) - 1)
        /\ (NumBits > 0 /\ NumBlocks = 1) => len(nodes) = 2
        /\ \A j \in 0 .. (NumBlocks - 1) :
              nodes[InternalCount + j] = TrueAggregate(j, j)

\* a pruned tree: three leaves under three internal nodes, last block partial
C8_Witness ==
    /\ Built
    /\ NumBlocks = 3
    /\ len(nodes) = 6
    /\ BlockLen(2) < block_size
    /\ nodes[5] # nodes[4]

RECURSIVE IsAncestor(_, _)
IsAncestor(a, n) ==
    IF n = a THEN TRUE
    ELSE IF n <= a THEN FALSE
    ELSE IsAncestor(a, (n - 1) \div 2)

LeavesBeneath(i) ==
    {j \in 0 .. (NumBlocks - 1) : IsAncestor(i, InternalCount + j)}

\* C9: every node with a realized leaf beneath it holds the true aggregate
\* of the contiguous range of its descendant blocks: total, and min / max of
\* the running excess over the non-empty prefixes of the range.
C9_NodesHoldTrueAggregate ==
    Built =>
        \A i \in DOMAIN nodes :
            LeavesBeneath(i) # {} =>
                LET lo == SetMin(LeavesBeneath(i))
                    hi == SetMax(LeavesBeneath(i))
                IN /\ LeavesBeneath(i) = lo .. hi
                   /\ nodes[i] = TrueAggregate(lo, hi)

\* an internal node above a leafless right child, with a min that only the
\* offset by the left total gets right
C9_Witness ==
    /\ Built
    /\ NumBlocks = 5
    /\ LeavesBeneath(6) = {}
    /\ nodes[2] = TrueAggregate(4, 4)
    /\ nodes[1].min < nodes[3].min
    /\ nodes[1].min < nodes[4].min

\* C10 as stated: the leaf min / max range over every prefix including the
\* empty one, so min <= 0 <= max for every leaf.
C10_LeafExtremesIncludeEmptyPrefix ==
    Built =>
        \A j \in 0 .. (NumBlocks - 1) :
            LET leaf == nodes[InternalCount + j]
            IN /\ leaf.min = SetMin(RangeExcesses(j, j, 0))
               /\ leaf.max = SetMax(RangeExcesses(j, j, 0))
               /\ leaf.min <= 0 /\ 0 <= leaf.max

\* C10 amended: the leaf min / max are the extremes of the running excess
\* over the non-empty prefixes (1 .. len, the full block included), so
\* min <= total <= max for every leaf.
C10_LeafExtremesOverNonEmptyPrefixes ==
    Built =>
        \A j \in 0 .. (NumBlocks - 1) :
            LET leaf == nodes[InternalCount + j]
                seen == {PrefixExcess(j, k) : k \in 1 .. BlockLen(j)}
            IN /\ leaf.min = SetMin(seen)
               /\ leaf.max = SetMax(seen)
               /\ leaf.min <= leaf.total /\ leaf.total <= leaf.max

\* a leaf whose running excess never returns to 0: its min is above 0
C10_Witness ==
    /\ Built
    /\ \E j \in 0 .. (NumBlocks - 1) :
          /\ BlockLen(j) >= 2
          /\ nodes[InternalCount + j].min > 0
          /\ nodes[InternalCount + j].max > nodes[InternalCount + j].min

\* C11: every node of the tree (leaf, internal with two children, with only
\* a left child, or with no child at all) has min <= total <= max.
C11_MinTotalMaxOrdered ==
    Built =>
        \A i \in DOMAIN nodes :
            /\ nodes[i].min <= nodes[i].total
            /\ nodes[i].total <= nodes[i].max

\* a twelve-node tree holding all four kinds of node, whose root has its
\* total strictly between its min and max
C11_Witness ==
    /\ Built
    /\ len(nodes) = 12
    /\ left_child(nodes, 6) = NoIndex
    /\ left_child(nodes, 5) # NoIndex /\ right_child(nodes, 5) = NoIndex
    /\ right_child(nodes, 2) # NoIndex
    /\ nodes[0].min < nodes[0].total /\ nodes[0].total < nodes[0].max

\* C12: excess_tree with block size 0 aborts for every bit sequence, the
\* empty one included, instead of returning a tree.
C12_BlockSizeZeroAborts ==
    (pc # "new" /\ block_size = 0) => pc = "aborted"

\* C13: on a non-empty tree, for begin < L and an x meeting the documented
\* precondition (not attainable within block begin, so x # 0), neither
\* search reaches an unreachable!() branch or any other abort: each call
\* returns a present or an absent result.
C13_SearchTotalUnderPrecondition ==
    (/\ pc = "searched" /\ op \in {"fwd", "bwd"} /\ block_size >= 1
     /\ NumBits > 0 /\ begin < NumBlocks
     /\ relative_excess # 0)
        => result.kind \in {"Some", "None"}

\* a forward descent through an internal node that had to fall back on its
\* right child: four leaves, start in the left half, found in the last leaf
C13_Witness ==
    /\ FwdDone
    /\ NumBlocks = 4
    /\ begin <= 1
    /\ relative_excess # 0
    /\ result.kind = "Some"
    /\ result.node = 3
    /\ result.excess # relative_excess

\* C14: every internal node i whose two child indices are both below N
\* (the right child may be a leafless internal node) stores exactly
\* total = total(l) + total(r), min = min(min(l), total(l) + min(r)),
\* max = max(max(l), total(l) + max(r)), with l = 2i+1 and r = 2i+2.
C14_TwoChildCombineExact ==
    Built =>
        \A i \in DOMAIN nodes :
            (2 * i + 2 < len(nodes)) =>
                LET l == nodes[2 * i + 1]
                    r == nodes[2 * i + 2]
                IN /\ nodes[i].total = l.total + r.total
                   /\ nodes[i].min = Min2(l.min, l.total + r.min)
                   /\ nodes[i].max = Max2(l.max, l.total + r.max)

\* a tree where a two-child node sits above a leafless right child and the
\* combination changes total and min on two levels
C14_Witness ==
    /\ Built
    /\ NumBlocks = 5
    /\ LeavesBeneath(6) = {}
    /\ nodes[2].total # 0
    /\ nodes[0].total # nodes[1].total
    /\ nodes[0].min # nodes[1].min
    /\ nodes[1].min # nodes[3].min

\* C15: every internal node i with 2i+1 < N and 2i+2 >= N (only a left
\* child) equals node 2i+1 in all three fields; for L = 1 the root equals
\* the sole leaf.
C15_SingleChildCopied ==
    Built =>
        /\ \A i \in DOMAIN nodes :
              (2 * i + 1 < len(nodes) /\ 2 * i + 2 >= len(nodes)) =>
                  nodes[i] = nodes[2 * i + 1]
        /\ (NumBits > 0 /\ NumBlocks = 1) => nodes[0] = nodes[1]

\* a one-child node below the root: three leaves, node 2 copies leaf 5,
\* which is not the default aggregate
C15_Witness ==
    /\ Built
    /\ NumBlocks = 3
    /\ right_child(nodes, 2) = NoIndex
    /\ nodes[2] = nodes[5]
    /\ nodes[5].min < nodes[5].max
    /\ nodes[5].total # 0

\* C16: on every non-empty tree first_leaf(), recomputed from N alone,
\* equals the internal-node count I of the construction, so is_leaf(idx)
\* holds exactly for idx >= I and no index in I .. N-1 has a child.
C16_FirstLeafIsInternalCount ==
    (Built /\ NumBits > 0) =>
        /\ first_leaf(nodes) = InternalCount
        /\ first_leaf(nodes) = num_internal_nodes_of(NumBlocks)
        /\ \A idx \in 0 .. (len(nodes) + 1) :
              is_leaf(nodes, idx) <=> idx >= InternalCount
        /\ \A idx \in InternalCount .. (len(nodes) - 1) :
              /\ left_child(nodes, idx) = NoIndex
              /\ right_child(nodes, idx) = NoIndex

\* the two-node tree, where the general formula would give 0
C16_Witness ==
    /\ Built
    /\ len(nodes) = 2
    /\ first_leaf(nodes) = 1
    /\ is_leaf(nodes, 1) /\ ~is_leaf(nodes, 0)

\* C17: for every tree (the empty one included) and every non-zero index
\* (indices >= N included), left_sibling and right_sibling return a sibling
\* only when it is below N and of the opposite parity, at most one of the
\* two is present, and right_sibling(a) = b exactly when left_sibling(b) = a.
C17_SiblingsInBoundsAndSymmetric ==
    pc = "navigated" =>
        LET idx == begin
            l == result.left
            r == result.right
        IN /\ l # NoIndex => (l < len(nodes) /\ l % 2 # idx % 2)
           /\ r # NoIndex => (r < len(nodes) /\ r % 2 # idx % 2)
           /\ ~(l # NoIndex /\ r # NoIndex)
           /\ r # NoIndex => left_sibling(nodes, r) = idx
           /\ l # NoIndex => right_sibling(nodes, l) = idx

====
